---- MODULE Spec2Model ----
(***************************************************************************)
(* Attention-heatmap script of stable-diffusion-webui-daam.                *)
(*                                                                         *)
(* Three state machines share this module:                                 *)
(*   SpecAnalyzer  PromptAnalyzer construction over long prompts           *)
(*   SpecLookup    calc_word_indecies on analyzed short prompts            *)
(*   Spec          the Script object driven by the host through one        *)
(*                 generation request: process, process_batch per          *)
(*                 iteration, one image-saved event per image, postprocess *)
(***************************************************************************)
EXTENDS Integers, Sequences, FiniteSets, TLC

\* ------------------------------------------------------------------ bounds
MaxTokens == 152        \* longest content-token stream given to PromptAnalyzer
MaxContent == 4         \* longest content stream enumerated token by token
MaxNeedle == 2          \* longest encoded attention word
MaxLimit == 2           \* largest limit passed to calc_word_indecies
MaxStart == 2           \* largest start_pos passed to calc_word_indecies
MaxWords == 2           \* most comma-separated entries in the attention texts
MaxImages == 3          \* most images of a request, n_iter * batch_size
MaxSide == 2            \* largest n_iter and batch_size given to make_grid
MaxHeatmaps == 2        \* most heat map images given to a compositing function
NumInputBlocks == 1     \* input blocks of the traced UNet
NumOutputBlocks == 1    \* output blocks of the traced UNet

\* ------------------------------------------------------- program constants
ChunkLen == 75          \* content tokens per chunk
CtxLen == 77            \* chunk plus start and end marker
id_start == 49406       \* clip.id_start
id_end == 49407         \* clip.id_end
NoLimit == -1           \* default of the limit parameter

None == "None"

VARIABLES
  analyzer,   \* the PromptAnalyzer under construction / constructed
  lookup,     \* the last calc_word_indecies call: arguments and result
  pc,         \* where the host is in the generation request
  host,       \* the request: the arguments the host passes to every script call
  self,       \* the Script object's attributes
  handler,    \* the global before_image_saved_handler
  hooked,     \* the traces whose hooks are installed in the UNet
  files,      \* heat map files written so far
  processed,  \* the host's Processed result handed to postprocess
  hist,       \* history: per-batch hook/unhook counts and the last call's outcome
  compose     \* the last call of a compositing function: arguments and result

avars == <<analyzer, lookup>>
lvars == <<pc, host, self, handler, hooked, files, processed, hist>>
vars ==
  <<analyzer, lookup, pc, host, self, handler, hooked, files, processed, hist, compose>>

\* --------------------------------------------------------------- helpers
Min(a, b) == IF a < b THEN a ELSE b
Max(a, b) == IF a > b THEN a ELSE b

\* Python slice s[lo:hi] of a list (0-based, hi exclusive, clipped to the list).
Slice(s, lo, hi) == SubSeq(s, Min(lo, Len(s)) + 1, Min(hi, Len(s)))

\* Python list(range(lo, hi)).
PyRange(lo, hi) == [k \in 1..Max(hi - lo, 0) |-> lo + k - 1]

SeqsUpTo(S, lo, hi) == UNION {[1..n -> S] : n \in lo..hi}

\* ---------------------------------------------------- calc_context_size
calc_context_size_off_by_one(token_length) ==
  ((token_length \div ChunkLen) + 1) * CtxLen

calc_context_size(token_length) ==
  LET len_check == IF (token_length - 1) < 0 THEN 0 ELSE token_length - 1
  IN  ((len_check \div ChunkLen) + 1) * CtxLen

\* ------------------------------------------------------- PromptAnalyzer
\* clip.tokenize_line: the content ids of the line cut into chunks of at most
\* 75, each chunk with its ids and one multiplier per id, and the number of
\* content ids.  Multipliers are in tenths (10 is 1.0).
tokenize_line(content) ==
  LET n == Len(content)
      nchunks == (n + ChunkLen - 1) \div ChunkLen
  IN  [chunks |-> [c \in 1..nchunks |->
                     [tokens |-> Slice(content, (c - 1) * ChunkLen, c * ChunkLen),
                      multipliers |-> [k \in 1..Len(Slice(content, (c - 1) * ChunkLen,
                                                          c * ChunkLen)) |-> 10]]],
       token_count |-> n]

RECURSIVE chain(_, _)
\* list(chain.from_iterable(chunk.<field> for chunk in chunks))
chain(chunks, field) ==
  IF chunks = <<>> THEN <<>>
  ELSE Head(chunks)[field] \o chain(Tail(chunks), field)

RECURSIVE Segments(_, _, _, _, _)
\* the loop "for i in range(self.context_size // 77)" over one list
Segments(flat, first, last, i, n) ==
  IF i >= n THEN <<>>
  ELSE (<<first>> \o Slice(flat, i * ChunkLen, i * ChunkLen + ChunkLen) \o <<last>>)
       \o Segments(flat, first, last, i + 1, n)

PromptAnalyzer(content) ==
  LET t == tokenize_line(content)
      context_size == calc_context_size(t.token_count)
      tokens == chain(t.chunks, "tokens")
      multipliers == chain(t.chunks, "multipliers")
  IN  [token_count |-> t.token_count,
       context_size |-> context_size,
       tokens |-> Segments(tokens, id_start, id_end, 0, context_size \div CtxLen),
       multipliers |-> Segments(multipliers, 10, 10, 0, context_size \div CtxLen)]

\* --------------------------------------------------- calc_word_indecies
RECURSIVE NeedleLoopRec(_, _, _, _)
\* "for needle in needles[1:]": j is the needle's 1-based position
NeedleLoopRec(tokens, needles, j, next) ==
  IF j > Len(needles) THEN [success |-> TRUE, next |-> next]
  ELSE IF next >= Len(tokens) \/ needles[j] # tokens[next + 1]
       THEN [success |-> FALSE, next |-> next]
       ELSE NeedleLoopRec(tokens, needles, j + 1, next + 1)

NeedleLoop_first_token_only(tokens, needles, j, next) ==
  [success |-> TRUE, next |-> next + (Len(needles) - j) + 1]

\* "if limit > 0: limit_count += 1; if limit_count >= limit: break"
LimitReached_ignored(limit, limit_count) == FALSE

NeedleLoop(tokens, needles, j, next) == NeedleLoopRec(tokens, needles, j, next)

LimitReached(limit, limit_count) == limit > 0 /\ limit_count + 1 >= limit

RECURSIVE TokenLoop(_, _, _, _, _, _, _, _)
\* "for i, token in enumerate(tokens)"; returns (merge_idxs, current_pos)
TokenLoop(tokens, needles, limit, start_pos, i, merge_idxs, limit_count, current_pos) ==
  IF i >= Len(tokens) THEN <<merge_idxs, current_pos>>
  ELSE
    LET token == tokens[i + 1]
        bump == IF limit > 0 THEN limit_count + 1 ELSE limit_count
    IN  IF i < start_pos
        THEN TokenLoop(tokens, needles, limit, start_pos, i + 1, merge_idxs, limit_count, i)
        ELSE IF needles[1] = token /\ Len(needles) > 1
        THEN LET r == NeedleLoop(tokens, needles, 2, i + 1)
                 m == merge_idxs \o PyRange(i, r.next)
             IN  IF r.success
                 THEN IF LimitReached(limit, limit_count) THEN <<m, i>>
                      ELSE TokenLoop(tokens, needles, limit, start_pos, i + 1, m, bump, i)
                 ELSE TokenLoop(tokens, needles, limit, start_pos, i + 1,
                                merge_idxs, limit_count, i)
        ELSE IF needles[1] = token
        THEN LET m == Append(merge_idxs, i)
             IN  IF LimitReached(limit, limit_count) THEN <<m, i>>
                 ELSE TokenLoop(tokens, needles, limit, start_pos, i + 1, m, bump, i)
        ELSE TokenLoop(tokens, needles, limit, start_pos, i + 1, merge_idxs, limit_count, i)

calc_word_indecies(tokens, needles, limit, start_pos) ==
  TokenLoop(tokens, needles, limit, start_pos, 0, <<>>, 0, 0)

NoLookup == [needles |-> <<>>, limit |-> NoLimit, start_pos |-> 0,
             merge_idxs |-> <<>>, current_pos |-> 0, called |-> FALSE]

\* ===================================================== Script lifecycle
GRID_LAYOUT_AUTO == "Auto"
GRID_LAYOUT_PREVENT_EMPTY == "Prevent Empty Spot"
GRID_LAYOUT_BATCH_LENGTH_AS_ROW == "Batch Length As Row"
GridLayouts ==
  {GRID_LAYOUT_AUTO, GRID_LAYOUT_PREVENT_EMPTY, GRID_LAYOUT_BATCH_LENGTH_AS_ROW}

\* ------------------------------------------------------------ the request
\* The prompt of the request, "a cat, red ball": the words a global heat map
\* can resolve, and the prompt's content ids.
PromptWords == {"cat", "ball"}
PromptContent == <<1, 2, 3, 1>>

\* One comma-separated entry of the attention-texts box, as typed.
Entries == {"cat", " ball", "zzz", ""}

\* str.strip() on an entry
strip(e) == IF e = " ball" THEN "ball" ELSE e

\* the texts: up to MaxWords entries, no entry typed twice
AttentionTexts ==
  {t \in SeqsUpTo(Entries, 1, MaxWords) :
     \A i, j \in 1..Len(t) : t[i] = t[j] => i = j}

\* the text box holds the empty string: "".split(",") is [""]
IsEmptyText(attention_texts) == attention_texts = <<"">>

Requests ==
  [enabled : BOOLEAN, attention_texts : AttentionTexts, samples_save : BOOLEAN,
   save_images : BOOLEAN, use_grid : BOOLEAN, grid_layout : GridLayouts,
   trace_each_layers : BOOLEAN,
   size : {z \in (1..MaxImages) \X (1..MaxImages) : z[1] * z[2] <= MaxImages}]

NIter(p) == p.size[1]
BatchSize(p) == p.size[2]

\* p.seeds[batch_index] of iteration iter: the request's seeds are consecutive
SeedOf(iter, batch_index) == (iter - 1) * BatchSize(host) + batch_index + 1

\* ----------------------------------------------------------------- images
\* Every image is a record of one shape: what it is, the seed and word it
\* belongs to, the traced layer, the images it is composed of, and for a grid
\* the batch_size and rows image_grid was given (0 for its defaults).
Img(t, seed, word, layer, parts) ==
  [t |-> t, seed |-> seed, word |-> word, layer |-> layer, parts |-> parts,
   batch_size |-> 0, rows |-> 0]

NoneImg == Img("None", 0, "", 0, <<>>)
Original(seed) == Img("image", seed, "", 0, <<>>)
HostGrid == Img("txt2img-grid", 0, "", 0, <<>>)

\* ------------------------------------------------------------ image.py
\* create_heatmap_image_overlay: the overlay of one word on the saved image, or
\* None when compute_word_heat_map raises ValueError for the word.
create_heatmap_image_overlay(layer, attention_word, seed) ==
  IF attention_word \in PromptWords
  THEN Img("overlay", seed, attention_word, layer, <<>>)
  ELSE NoneImg

\* --------------------------------------------------------------- Script
RECURSIVE SelectAttentions(_)
\* [s.strip() for s in attention_texts.split(",") if s.strip() and len(s.strip()) > 0]
SelectAttentions(entries) ==
  IF entries = <<>> THEN <<>>
  ELSE IF strip(Head(entries)) # ""
       THEN <<strip(Head(entries))>> \o SelectAttentions(Tail(entries))
       ELSE SelectAttentions(Tail(entries))

is_enabled_ignores_self(s, attention_texts, enabled) ==
  IF enabled = FALSE THEN FALSE
  ELSE IF IsEmptyText(attention_texts) THEN FALSE
  ELSE TRUE

is_enabled(s, attention_texts, enabled) ==
  IF s.enabled = FALSE THEN FALSE
  ELSE IF enabled = FALSE THEN FALSE
  ELSE IF IsEmptyText(attention_texts) THEN FALSE
  ELSE TRUE

\* before_image_saved_handler is None
NoHandler == [set |-> FALSE, trace_each_layers |-> FALSE]

\* self.trace is None
NoTrace == [id |-> 0, context_size |-> 0, batch_size |-> 0]

\* try_unhook: trace.unhook() raises RuntimeError when the trace is not hooked,
\* which is swallowed.
try_unhook_never(s, hk) == hk

try_unhook_toggles(s, hk) ==
  IF s.trace # NoTrace
  THEN IF s.trace.id \in hk THEN hk \ {s.trace.id} ELSE hk \cup {s.trace.id}
  ELSE hk

try_unhook(s, hk) ==
  IF s.trace # NoTrace
  THEN IF s.trace.id \in hk THEN hk \ {s.trace.id} ELSE hk
  ELSE hk

\* calc_global_heatmap: one global heat map per layer, or the aggregate one
\* (layer -1); [] when compute_global_heat_map raises RuntimeError.
calc_global_heatmap(raises, trace_each_layers) ==
  IF raises THEN <<>>
  ELSE IF trace_each_layers
       THEN PyRange(0, NumInputBlocks + 1 + NumOutputBlocks)
       ELSE <<-1>>

\* the dict self.heatmap_images, in insertion order
DictHas(d, key) == \E k \in 1..Len(d) : d[k].seed = key
DictGet(d, key) == d[CHOOSE k \in 1..Len(d) : d[k].seed = key].imgs
DictSet(d, key, imgs) ==
  IF DictHas(d, key)
  THEN [k \in 1..Len(d) |-> IF d[k].seed = key THEN [seed |-> key, imgs |-> imgs] ELSE d[k]]
  ELSE Append(d, [seed |-> key, imgs |-> imgs])

\* "{filename.stem}_{attention}{filename.suffix}" next to the image of the seed
HeatmapFile(seed, attention) == [stem |-> seed, attention |-> attention]

RECURSIVE AttentionLoop(_, _, _, _, _, _, _)
\* "for attention in self.attentions": img.save on None raises AttributeError
AttentionLoop(attentions, j, layer, seed, heatmap_images, fl, save_images) ==
  IF j > Len(attentions) THEN [imgs |-> heatmap_images, files |-> fl, fault |-> "none"]
  ELSE
    LET img == create_heatmap_image_overlay(layer, attentions[j], seed)
        appended == Append(heatmap_images, img)
    IN  IF save_images
        THEN IF img = NoneImg
             THEN [imgs |-> appended, files |-> fl, fault |-> "AttributeError"]
             ELSE AttentionLoop(attentions, j + 1, layer, seed, appended,
                                [fl EXCEPT !.heatmaps = @ \cup
                                   {HeatmapFile(seed, attentions[j])}], save_images)
        ELSE AttentionLoop(attentions, j + 1, layer, seed, appended, fl, save_images)

RECURSIVE GlobalHeatMapLoop(_, _, _, _, _)
\* "for global_heat_map in self.global_heat_maps"
GlobalHeatMapLoop(s, g, seed, d, fl) ==
  IF g > Len(s.global_heat_maps) THEN [heatmap_images |-> d, files |-> fl, fault |-> "none"]
  ELSE
    LET r == AttentionLoop(s.attentions, 1, s.global_heat_maps[g], seed, <<>>, fl,
                           s.save_images)
    IN  IF r.fault # "none"
        THEN [heatmap_images |-> d, files |-> r.files, fault |-> r.fault]
        ELSE GlobalHeatMapLoop(s, g + 1, seed, DictSet(d, seed, r.imgs), r.files)

\* before_image_saved for the image of batch_index; raises says whether
\* compute_global_heat_map raises RuntimeError.  The result is the Script, the
\* hooked traces, the files, and the exception that ended the handler, if any.
before_image_saved(s0, trace_each_layers, hk, fl, batch_index, seed, raises) ==
  LET s == [s0 EXCEPT !.trace_each_layers = trace_each_layers]
      same == [self |-> s, hooked |-> hk, files |-> fl, fault |-> "none",
               handled |-> FALSE]
  IN  IF ~s.assigned THEN [same EXCEPT !.fault = "TypeError"]
      ELSE IF s.trace = NoTrace \/ Len(s.attentions) = 0 THEN same
      ELSE
        LET s1 == IF batch_index = 0
                  THEN [s EXCEPT !.global_heat_maps =
                                   calc_global_heatmap(raises, s.trace_each_layers),
                                 !.has_global_heat_maps = TRUE]
                  ELSE s
        IN  IF ~s1.has_global_heat_maps
            THEN [same EXCEPT !.fault = "TypeError", !.handled = TRUE]
            ELSE
              LET r == GlobalHeatMapLoop(s1, 1, seed, s1.heatmap_images, fl)
                  s2 == [s1 EXCEPT !.heatmap_images = r.heatmap_images]
              IN  IF r.fault # "none"
                  THEN [self |-> s2, hooked |-> hk, files |-> r.files,
                        fault |-> r.fault, handled |-> TRUE]
                  ELSE IF ~DictHas(s2.heatmap_images, seed)
                  THEN [self |-> s2, hooked |-> hk, files |-> r.files,
                        fault |-> "KeyError", handled |-> TRUE]
                  ELSE [self |-> s2, hooked |-> try_unhook(s2, hk), files |-> r.files,
                        fault |-> "none", handled |-> TRUE]

\* ---------------------------------------------------------- postprocess
HasNone(imgs) == \E k \in 1..Len(imgs) : imgs[k] = NoneImg

\* modules.images.image_grid: pasting None raises
image_grid(imgs, batch_size, rows) ==
  [Img("grid", 0, "", 0, imgs) EXCEPT !.batch_size = batch_size, !.rows = rows]

make_grid_auto_prevents_empty(s, p, img_list, layers_as_row, fl) ==
  LET grid_layout ==
        IF s.grid_layout = GRID_LAYOUT_AUTO THEN GRID_LAYOUT_PREVENT_EMPTY
        ELSE s.grid_layout
      grid_img ==
        IF grid_layout = GRID_LAYOUT_PREVENT_EMPTY THEN image_grid(img_list, 0, 0)
        ELSE IF layers_as_row
             THEN image_grid(img_list, Len(s.attentions), Len(s.heatmap_images))
             ELSE image_grid(img_list, BatchSize(p), BatchSize(p) * NIter(p))
  IN  [img |-> grid_img,
       files |-> IF s.save_images THEN [fl EXCEPT !.grids = @ + 1] ELSE fl,
       fault |-> "none"]

\* make_grid: the grid image, the files after save_image, and the exception
make_grid(s, p, img_list, layers_as_row, fl) ==
  LET grid_layout ==
        IF s.grid_layout = GRID_LAYOUT_AUTO
        THEN IF BatchSize(p) * NIter(p) = 1
             THEN GRID_LAYOUT_PREVENT_EMPTY
             ELSE GRID_LAYOUT_BATCH_LENGTH_AS_ROW
        ELSE s.grid_layout
      grid_img ==
        IF grid_layout = GRID_LAYOUT_PREVENT_EMPTY THEN image_grid(img_list, 0, 0)
        ELSE IF layers_as_row
             THEN image_grid(img_list, Len(s.attentions), Len(s.heatmap_images))
             ELSE image_grid(img_list, BatchSize(p), BatchSize(p) * NIter(p))
  IN  IF grid_layout \notin {GRID_LAYOUT_PREVENT_EMPTY, GRID_LAYOUT_BATCH_LENGTH_AS_ROW}
      THEN [img |-> NoneImg, files |-> fl, fault |-> "RuntimeError"]
      ELSE IF HasNone(img_list)
      THEN [img |-> NoneImg, files |-> fl, fault |-> "ValueError"]
      ELSE [img |-> grid_img,
            files |-> IF s.save_images THEN [fl EXCEPT !.grids = @ + 1] ELSE fl,
            fault |-> "none"]

\* modules.images.resize_image(0, im, width, height)
resize_image(im) == Img("resized", im.seed, im.word, im.layer, <<im>>)

Repeat(x, n) == [k \in 1..n |-> x]

insert_image_at_end(ps, img) ==
  [ps EXCEPT !.images = Append(@, img),
             !.index_of_first_image = @ + 1,
             !.infotexts = <<@[1]>> \o @]

\* processed.images.insert(0, img); processed.index_of_first_image += 1;
\* processed.infotexts.insert(0, processed.infotexts[0])
insert_image(ps, img) ==
  [ps EXCEPT !.images = <<img>> \o @,
             !.index_of_first_image = @ + 1,
             !.infotexts = <<@[1]>> \o @]

insert_images_counts_one(ps, imgs) ==
  [ps EXCEPT !.images = imgs \o @,
             !.index_of_first_image = @ + 1,
             !.infotexts = Repeat(@[1], Len(imgs)) \o @]

\* processed.images[:0] = heatmap_images; index_of_first_image += len(...);
\* processed.infotexts[:0] = [processed.infotexts[0]] * len(heatmap_images)
insert_images(ps, imgs) ==
  [ps EXCEPT !.images = imgs \o @,
             !.index_of_first_image = @ + Len(imgs),
             !.infotexts = Repeat(@[1], Len(imgs)) \o @]

\* one pass of the body of "for (seed, heatmap_images), img in zip(...)"
PostBody(s, p, a, heatmap_images, img, ps) ==
  LET g == IF Len(heatmap_images) > 0 /\ s.use_grid
           THEN make_grid(s, p, heatmap_images, a.layers_as_row, ps.files)
           ELSE [img |-> NoneImg, files |-> ps.files, fault |-> "none"]
      ps1 == IF Len(heatmap_images) > 0 /\ s.use_grid /\ a.show_images
             THEN insert_image([ps EXCEPT !.files = g.files], g.img)
             ELSE [ps EXCEPT !.files = g.files]
      ps2 == IF a.show_images THEN insert_images(ps1, heatmap_images) ELSE ps1
      resizable == Len(heatmap_images) > 0 /\ heatmap_images[1] # NoneImg /\ img # NoneImg
      h == make_grid(s, p, Append(heatmap_images, resize_image(img)), FALSE, ps2.files)
      ps3 == IF a.show_images /\ a.grid_per_image
             THEN insert_image([ps2 EXCEPT !.files = h.files], h.img)
             ELSE [ps2 EXCEPT !.files = h.files]
  IN  IF g.fault # "none" THEN [ps EXCEPT !.fault = g.fault]
      ELSE IF ~resizable THEN [ps2 EXCEPT !.fault = "AttributeError"]
      ELSE IF h.fault # "none" THEN [ps2 EXCEPT !.fault = h.fault]
      ELSE ps3

RECURSIVE PostLoop(_, _, _, _, _)
\* zip(self.heatmap_images.items(), images): images is processed.images itself,
\* read at position k as it is when pass k starts; pairs keeps what zip yielded
PostLoop(s, p, a, k, ps) ==
  IF k >= Len(s.heatmap_images) \/ k >= Len(ps.images) \/ ps.fault # "none" THEN ps
  ELSE PostLoop(s, p, a, k + 1,
                PostBody(s, p, a, s.heatmap_images[k + 1].imgs, ps.images[k + 1],
                         [ps EXCEPT !.pairs = Append(@, [seed |-> s.heatmap_images[k + 1].seed,
                                                         img |-> ps.images[k + 1]])]))

\* postprocess(p, processed, ..., show_images, ..., grid_per_image, ..., layers_as_row)
postprocess(s, p, a, hk, h, fl, proc) ==
  IF is_enabled(s, p.attention_texts, p.enabled) = FALSE
  THEN [hooked |-> hk, handler |-> h, files |-> fl, processed |-> proc, fault |-> "none",
        ran |-> FALSE, pairs |-> <<>>]
  ELSE
    LET ps == PostLoop(s, p, a, 0,
                       [images |-> proc.images, infotexts |-> proc.infotexts,
                        index_of_first_image |-> proc.index_of_first_image,
                        files |-> fl, fault |-> "none", pairs |-> <<>>])
    IN  [hooked |-> try_unhook(s, hk), handler |-> NoHandler, files |-> ps.files,
         processed |-> [images |-> ps.images, infotexts |-> ps.infotexts,
                        index_of_first_image |-> ps.index_of_first_image],
         fault |-> ps.fault, ran |-> TRUE, pairs |-> ps.pairs]

\* ----------------------------------------------- image.py: compositing
\* webui_daam.grid.make_grid(images, opts): the list of grid images, one
\* canvas composed of the images, first in the tuple it returns
grid_make_grid(images) == <<<<Img("grid", 0, "", 0, images)>>>>

\* the imgs argument of add_to_start: a list of images, or one image
ImgList(items) == [list |-> TRUE, items |-> items]
OneImg(img) == [list |-> FALSE, items |-> <<img>>]

\* add_to_start(images, imgs, infotexts, infotext, offset)
add_to_start(images, imgs, infotexts, infotext, offset) ==
  LET images1 == imgs.items \o images
  IN  [images |-> images1,
       infotexts |-> <<infotext>> \o infotexts,
       offset |-> offset + IF imgs.list THEN Len(images1) ELSE 1]

\* compile_processed_image(image, heatmap_images, infotext, offset, grid_opts,
\* use_grid, grid_per_image, show_images): the offset given is overwritten by 0
compile_processed_image(image, heatmap_images, infotext, offset, use_grid, grid_per_image, show_images) ==
  LET g0 == IF Len(heatmap_images) > 0 /\ use_grid
            THEN <<grid_make_grid(heatmap_images)>> ELSE <<>>
      r0 == [images |-> <<image>>, infotexts |-> <<infotext>>, offset |-> 0]
      r1 == IF show_images
            THEN add_to_start(r0.images, ImgList(heatmap_images), r0.infotexts,
                              infotext, r0.offset)
            ELSE r0
      img_heatmap_grid_img == grid_make_grid(Append(heatmap_images, image))
      r2 == IF use_grid /\ show_images /\ grid_per_image
            THEN add_to_start(r1.images, ImgList(img_heatmap_grid_img[1]), r1.infotexts,
                              infotext, r1.offset)
            ELSE r1
  IN  [images |-> r2.images, infotexts |-> r2.infotexts, offset |-> r2.offset,
       grid_images_list |-> IF use_grid THEN Append(g0, img_heatmap_grid_img) ELSE g0]

\* no compositing function has been called
NoCompose == [op |-> "none"]

\* ------------------------------------------------------------- the host
RECURSIVE Originals(_, _)
\* the generated images of seeds first..n, in generation order
Originals(first, n) ==
  IF first > n THEN <<>> ELSE <<Original(first)>> \o Originals(first + 1, n)

\* Processed as the host builds it: the images, one info text per image (the
\* image's seed; 0 for the host's grid), the host's grid first when it made one
HostProcessed(p, with_grid) ==
  LET imgs == Originals(1, NIter(p) * BatchSize(p))
      infos == [k \in 1..Len(imgs) |-> imgs[k].seed]
  IN  IF with_grid
      THEN [images |-> <<HostGrid>> \o imgs, infotexts |-> <<0>> \o infos,
            index_of_first_image |-> 1]
      ELSE [images |-> imgs, infotexts |-> infos, index_of_first_image |-> 0]

NoProcessed == [images |-> <<>>, infotexts |-> <<>>, index_of_first_image |-> 0]

At(at, iter, batch_index) == [at |-> at, iter |-> iter, batch_index |-> batch_index]

\* the arguments of a postprocess that returned at once are not recorded;
\* pairs is what the loop of postprocess paired: a seed of the heat map set
\* and the image taken for it
NoCall == [op |-> "none", iter |-> 0, batch_index |-> 0, raises |-> FALSE,
           handled |-> FALSE, fault |-> "none",
           show_images |-> FALSE, grid_per_image |-> FALSE, pairs |-> <<>>]

\* per batch: hook() calls, unhook() calls that unhooked, and image-saved
\* events handled to the end
NoHistory ==
  [hooks |-> [b \in 1..MaxImages |-> 0], unhooks |-> [b \in 1..MaxImages |-> 0],
   completed |-> [b \in 1..MaxImages |-> 0], call |-> NoCall]

\* the Script before process has run: no attribute is assigned
NewScript ==
  [enabled |-> FALSE, assigned |-> FALSE, attentions |-> <<>>, save_images |-> FALSE,
   use_grid |-> FALSE, grid_layout |-> "", trace |-> NoTrace,
   heatmap_images |-> <<>>, has_global_heat_maps |-> FALSE, global_heat_maps |-> <<>>,
   trace_each_layers |-> FALSE, context_size |-> 0]

NoAnalyzer == [pc |-> "none", content |-> <<>>, obj |-> None]

InitScript ==
  /\ analyzer = NoAnalyzer
  /\ lookup = NoLookup
  /\ pc = At("start", 0, 0)
  /\ host \in Requests
  /\ self = NewScript
  /\ handler = NoHandler
  /\ hooked = {}
  /\ files = [heatmaps |-> {}, grids |-> 0]
  /\ processed = NoProcessed
  /\ hist = NoHistory
  /\ compose = NoCompose

\* the unhooks a call made, counted per trace (trace b belongs to batch b)
CountUnhooks(before, after) ==
  [b \in 1..MaxImages |-> hist.unhooks[b] + IF b \in before \ after THEN 1 ELSE 0]

\* process(p, ...): the assert on opts.samples_save ends it before any attribute
\* but enabled is assigned
Process ==
  /\ pc.at = "start"
  /\ handler' = [set |-> TRUE, trace_each_layers |-> host.trace_each_layers]
  /\ self' = IF ~host.samples_save
             THEN [self EXCEPT !.enabled = FALSE]
             ELSE LET attentions == SelectAttentions(host.attention_texts)
                  IN  [self EXCEPT !.assigned = TRUE,
                                   !.save_images = host.save_images,
                                   !.use_grid = host.use_grid,
                                   !.grid_layout = host.grid_layout,
                                   !.heatmap_images = <<>>,
                                   !.attentions = attentions,
                                   !.enabled = Len(attentions) > 0 /\ host.enabled,
                                   !.trace = NoTrace]
  /\ pc' = At("batch", 1, 0)
  /\ hist' = [hist EXCEPT !.call = [NoCall EXCEPT !.op = "process",
                 !.fault = IF host.samples_save THEN "none" ELSE "AssertionError"]]
  /\ UNCHANGED <<host, hooked, files, processed, analyzer, lookup, compose>>

\* where the host goes after the last image of batch iter
HostMakesGrid(p) == NIter(p) * BatchSize(p) > 1

AfterBatch(iter) ==
  IF iter < NIter(host) THEN At("batch", iter + 1, 0)
  ELSE IF HostMakesGrid(host) THEN At("grid", iter, 0)
  ELSE At("post", iter, 0)

\* process_batch(p, ..., prompts): a new trace per batch, hooked at once
ProcessBatch ==
  /\ pc.at = "batch"
  /\ IF ~is_enabled(self, host.attention_texts, host.enabled)
     THEN UNCHANGED <<self, hooked>> /\ hist' = [hist EXCEPT !.call =
            [NoCall EXCEPT !.op = "process_batch", !.iter = pc.iter]]
     ELSE LET context_size == PromptAnalyzer(PromptContent).context_size
              t == [id |-> pc.iter, context_size |-> context_size,
                    batch_size |-> BatchSize(host)]
          IN  /\ self' = [self EXCEPT !.context_size = context_size, !.trace = t]
              /\ hooked' = hooked \cup {t.id}
              /\ hist' = [hist EXCEPT !.hooks[pc.iter] = @ + 1,
                            !.call = [NoCall EXCEPT !.op = "process_batch",
                                                    !.iter = pc.iter, !.handled = TRUE]]
  /\ pc' = IF host.samples_save THEN At("saving", pc.iter, 0) ELSE AfterBatch(pc.iter)
  /\ UNCHANGED <<host, handler, files, processed, analyzer, lookup, compose>>

\* on_before_image_saved(params) for the next image of the batch
ImageSaved ==
  /\ pc.at = "saving"
  /\ \E raises \in BOOLEAN :
       LET r == IF handler.set
                THEN before_image_saved(self, handler.trace_each_layers, hooked, files,
                                        pc.batch_index, SeedOf(pc.iter, pc.batch_index),
                                        raises)
                ELSE [self |-> self, hooked |-> hooked, files |-> files,
                      fault |-> "none", handled |-> FALSE]
           used == r.handled /\ pc.batch_index = 0
       IN  /\ raises => used
           /\ self' = r.self
           /\ hooked' = r.hooked
           /\ files' = r.files
           /\ hist' = [hist EXCEPT !.unhooks = CountUnhooks(hooked, r.hooked),
                         !.completed[pc.iter] =
                            IF r.handled /\ r.fault = "none" THEN @ + 1 ELSE @,
                         !.call = [NoCall EXCEPT !.op = "image", !.iter = pc.iter,
                                     !.batch_index = pc.batch_index, !.raises = raises,
                                     !.handled = r.handled, !.fault = r.fault]]
  /\ pc' = IF pc.batch_index + 1 < BatchSize(host)
           THEN At("saving", pc.iter, pc.batch_index + 1)
           ELSE AfterBatch(pc.iter)
  /\ UNCHANGED <<host, handler, processed, analyzer, lookup, compose>>

\* the host saves its own grid of a request of several images: the handler
\* returns at once for a file name holding "txt2img-grid" or "img2img-grid"
GridImageSaved ==
  /\ pc.at = "grid"
  /\ pc' = At("post", pc.iter, 0)
  /\ hist' = [hist EXCEPT !.call = [NoCall EXCEPT !.op = "grid"]]
  /\ UNCHANGED <<host, self, handler, hooked, files, processed, analyzer, lookup, compose>>

\* postprocess(p, processed, ...); the host put its grid first if it made one
Postprocess ==
  /\ pc.at = "post"
  /\ \E show_images \in BOOLEAN, grid_per_image \in BOOLEAN, layers_as_row \in BOOLEAN :
       LET a == [show_images |-> show_images, grid_per_image |-> grid_per_image,
                 layers_as_row |-> layers_as_row]
           r == postprocess(self, host, a, hooked, handler, files,
                            HostProcessed(host, HostMakesGrid(host)))
       IN  /\ hooked' = r.hooked
           /\ handler' = r.handler
           /\ files' = r.files
           /\ processed' = r.processed
           /\ hist' = [hist EXCEPT !.unhooks = CountUnhooks(hooked, r.hooked),
                         !.call = [NoCall EXCEPT !.op = "postprocess",
                                     !.handled = r.ran, !.fault = r.fault,
                                     !.show_images = r.ran /\ show_images,
                                     !.grid_per_image = r.ran /\ grid_per_image,
                                     !.pairs = r.pairs]]
  /\ pc' = At("done", pc.iter, 0)
  /\ UNCHANGED <<host, self, analyzer, lookup, compose>>

Next == Process \/ ProcessBatch \/ ImageSaved \/ GridImageSaved \/ Postprocess

Spec == InitScript /\ [][Next]_vars

\* ------------------------------------------------- SpecAnalyzer: machine
ContentIds == 1..3

\* a content stream of n ids, for the streams too long to enumerate by id
PatternContent(n) == [k \in 1..n |-> 1 + (k % 3)]

LongContents == {PatternContent(n) : n \in 0..MaxTokens}

ShortContents == SeqsUpTo(ContentIds, 0, MaxContent)

Needles == SeqsUpTo(ContentIds, 1, MaxNeedle)

\* no generation request is in progress
NoRequest ==
  [enabled |-> FALSE, attention_texts |-> <<"">>, samples_save |-> TRUE,
   save_images |-> FALSE, use_grid |-> FALSE, grid_layout |-> GRID_LAYOUT_AUTO,
   trace_each_layers |-> FALSE, size |-> <<1, 1>>]

ScriptIdle ==
  /\ pc = At("idle", 0, 0)
  /\ host = NoRequest
  /\ self = NewScript
  /\ handler = NoHandler
  /\ hooked = {}
  /\ files = [heatmaps |-> {}, grids |-> 0]
  /\ processed = NoProcessed
  /\ hist = NoHistory
  /\ compose = NoCompose

InitAnalyzer ==
  /\ ScriptIdle
  /\ analyzer \in {[pc |-> "text", content |-> c, obj |-> None] : c \in LongContents}
  /\ lookup = NoLookup

InitLookup ==
  /\ ScriptIdle
  /\ analyzer \in {[pc |-> "text", content |-> c, obj |-> None] : c \in ShortContents}
  /\ lookup = NoLookup

\* PromptAnalyzer(clip, text)
Construct ==
  /\ analyzer.pc = "text"
  /\ analyzer' = [analyzer EXCEPT !.pc = "built", !.obj = PromptAnalyzer(analyzer.content)]
  /\ UNCHANGED <<lookup, pc, host, self, handler, hooked, files, processed, hist, compose>>

\* prompt_analyzer.calc_word_indecies(word, limit, start_pos)
CalcWordIndecies ==
  /\ analyzer.pc = "built"
  /\ ~lookup.called
  /\ \E needles \in Needles, limit \in {NoLimit} \cup 0..MaxLimit, start_pos \in 0..MaxStart :
       LET r == calc_word_indecies(analyzer.obj.tokens, needles, limit, start_pos)
       IN  lookup' = [needles |-> needles, limit |-> limit, start_pos |-> start_pos,
                      merge_idxs |-> r[1], current_pos |-> r[2], called |-> TRUE]
  /\ UNCHANGED <<analyzer, pc, host, self, handler, hooked, files, processed, hist, compose>>

NextAnalyzer == Construct

SpecAnalyzer == InitAnalyzer /\ [][NextAnalyzer]_vars

NextLookup == Construct \/ CalcWordIndecies

SpecLookup == InitLookup /\ [][NextLookup]_vars

\* --------------------------------------------------- SpecCompose: machine
\* the Script as process leaves it for request p, with the overlays of the
\* first n seeds in the heat map set
ScriptFor(p, n) ==
  [NewScript EXCEPT !.assigned = TRUE,
                    !.save_images = p.save_images,
                    !.use_grid = p.use_grid,
                    !.grid_layout = p.grid_layout,
                    !.attentions = SelectAttentions(p.attention_texts),
                    !.enabled = TRUE,
                    !.heatmap_images =
                       [k \in 1..n |->
                          [seed |-> k,
                           imgs |-> [j \in 1..Len(SelectAttentions(p.attention_texts)) |->
                                       Img("overlay", k,
                                           SelectAttentions(p.attention_texts)[j], -1, <<>>)]]]]

\* the overlays of n words on the image of seed 1
Overlays(n) == [j \in 1..n |-> Img("overlay", 1, <<"cat", "ball", "sky", "sea">>[j], -1, <<>>)]

InitCompose ==
  /\ analyzer = NoAnalyzer
  /\ lookup = NoLookup
  /\ pc = At("idle", 0, 0)
  /\ host \in {[NoRequest EXCEPT !.enabled = TRUE, !.attention_texts = t, !.save_images = sv,
                                 !.use_grid = TRUE, !.grid_layout = g, !.size = z] :
                 t \in {<<"cat">>, <<"cat", " ball">>}, sv \in BOOLEAN, g \in GridLayouts,
                 z \in (1..MaxSide) \X (1..MaxSide)}
  /\ \E n \in 1..MaxHeatmaps : self = ScriptFor(host, n)
  /\ handler = NoHandler
  /\ hooked = {}
  /\ files = [heatmaps |-> {}, grids |-> 0]
  /\ processed = NoProcessed
  /\ hist = NoHistory
  /\ compose = NoCompose

\* self.make_grid(p, img_list, layers_as_row)
MakeGrid ==
  /\ compose.op = "none"
  /\ \E n \in 1..MaxHeatmaps, layers_as_row \in BOOLEAN :
       LET r == make_grid(self, host, Overlays(n), layers_as_row, files)
       IN  /\ compose' = [op |-> "make_grid", img_list |-> Overlays(n),
                          layers_as_row |-> layers_as_row, grid_img |-> r.img,
                          fault |-> r.fault]
           /\ files' = r.files
  /\ UNCHANGED <<analyzer, lookup, pc, host, self, handler, hooked, processed, hist>>

\* add_to_start(images, imgs, infotexts, infotext, offset) on lists that hold
\* the original image, with imgs a list of k images or one image
AddToStart ==
  /\ compose.op = "none"
  /\ \E k \in 0..MaxHeatmaps, list \in BOOLEAN, offset \in 0..1 :
       /\ ~list => k = 1
       /\ LET imgs == IF list THEN ImgList(Overlays(k)) ELSE OneImg(Overlays(1)[1])
               r == add_to_start(<<Original(1)>>, imgs, <<1>>, 1, offset)
           IN  compose' = [op |-> "add_to_start", k |-> k, imgs |-> imgs, offset |-> offset,
                           images |-> r.images, infotexts |-> r.infotexts,
                           result_offset |-> r.offset]
  /\ UNCHANGED <<analyzer, lookup, pc, host, self, handler, hooked, files, processed, hist>>

\* compile_processed_image(image, heatmap_images, infotext, offset, grid_opts, ...)
CompileProcessedImage ==
  /\ compose.op = "none"
  /\ \E k \in 0..MaxHeatmaps, use_grid \in BOOLEAN, grid_per_image \in BOOLEAN,
        show_images \in BOOLEAN :
       LET r == compile_processed_image(Original(1), Overlays(k), 1, 0,
                                        use_grid, grid_per_image, show_images)
       IN  compose' = [op |-> "compile_processed_image", k |-> k, use_grid |-> use_grid,
                       grid_per_image |-> grid_per_image, show_images |-> show_images,
                       images |-> r.images, infotexts |-> r.infotexts,
                       result_offset |-> r.offset]
  /\ UNCHANGED <<analyzer, lookup, pc, host, self, handler, hooked, files, processed, hist>>

NextCompose == MakeGrid \/ AddToStart \/ CompileProcessedImage

SpecCompose == InitCompose /\ [][NextCompose]_vars

\* ----------------------------------------------------- claims: analyzer
Built == analyzer.pc = "built"

\* C6: every constructed PromptAnalyzer has len(tokens) == len(multipliers) ==
\* context_size, and context_size is a multiple of 77.
C6_AnalyzerLengths ==
  Built => /\ Len(analyzer.obj.tokens) = analyzer.obj.context_size
           /\ Len(analyzer.obj.multipliers) = analyzer.obj.context_size
           /\ analyzer.obj.context_size % 77 = 0

\* C7: calc_context_size(n) is (max(n-1,0) // 75 + 1) * 77 for every n >= 0, a
\* positive multiple of 77, with 0->77, 75->77, 76->154, 150->154, 151->231.
C7_ContextSize ==
  Built =>
    LET n == analyzer.obj.token_count
        c == analyzer.obj.context_size
    IN  /\ c = ((Max(n - 1, 0) \div 75) + 1) * 77
        /\ c > 0 /\ c % 77 = 0
        /\ (n = 0 => c = 77)
        /\ (n = 75 => c = 77)
        /\ (n = 76 => c = 154)
        /\ (n = 150 => c = 154)
        /\ (n = 151 => c = 231)

C7_Witness ==
  Built /\ analyzer.obj.token_count = 151 /\ analyzer.obj.context_size = 231

\* ------------------------------------------------------- claims: lookup
\* the needle occurs in tokens at 0-based position i
Occurs(tokens, needles, i) ==
  /\ i + Len(needles) <= Len(tokens)
  /\ \A j \in 1..Len(needles) : tokens[i + j] = needles[j]

RECURSIVE FirstMatches(_, _, _, _)
\* the positions of the first k occurrences at or after i, in scan order
FirstMatches(tokens, needles, i, k) ==
  IF k = 0 \/ i >= Len(tokens) THEN <<>>
  ELSE IF Occurs(tokens, needles, i)
       THEN PyRange(i, i + Len(needles)) \o FirstMatches(tokens, needles, i + 1, k - 1)
       ELSE FirstMatches(tokens, needles, i + 1, k)

Occurrences(tokens, needles, from) ==
  {i \in from..(Len(tokens) - 1) : Occurs(tokens, needles, i)}

Elems(s) == {s[k] : k \in 1..Len(s)}

\* C8: with limit=-1 and start_pos=0 the lookup returns exactly the positions
\* covered by occurrences of the needle: every equal token for a one-token
\* needle, only whole contiguous occurrences for a longer one ([S,A,B,C,E] with
\* [B,C] gives [2,3]), and the empty list when the needle does not occur.
C8_WordLookup ==
  (lookup.called /\ lookup.limit = NoLimit /\ lookup.start_pos = 0) =>
    LET tokens == analyzer.obj.tokens
        occ == Occurrences(tokens, lookup.needles, 0)
    IN  /\ lookup.merge_idxs = FirstMatches(tokens, lookup.needles, 0, Len(tokens))
        /\ Elems(lookup.merge_idxs) =
             {i + j : i \in occ, j \in 0..(Len(lookup.needles) - 1)}
        /\ (occ = {} => lookup.merge_idxs = <<>>)
        /\ (tokens = <<id_start, 1, 2, 3, id_end>> /\ lookup.needles = <<2, 3>>
              => lookup.merge_idxs = <<2, 3>>)

C8_Witness ==
  /\ lookup.called /\ lookup.limit = NoLimit /\ lookup.start_pos = 0
  /\ analyzer.obj.tokens = <<id_start, 1, 2, 3, id_end>>
  /\ lookup.needles = <<2, 3>>
  /\ lookup.merge_idxs = <<2, 3>>

\* C9: with limit > 0 the scan stops at the limit-th match and returns the
\* indices of the first min(limit, matches) matches in scan order; two
\* non-overlapping matches and limit=1 give exactly the first match's indices.
C9_Limit ==
  (lookup.called /\ lookup.limit > 0) =>
    LET tokens == analyzer.obj.tokens
        occ == Occurrences(tokens, lookup.needles, lookup.start_pos)
        nth == CHOOSE i \in occ : Cardinality({o \in occ : o <= i}) = lookup.limit
    IN  /\ lookup.merge_idxs =
             FirstMatches(tokens, lookup.needles, lookup.start_pos, lookup.limit)
        /\ Len(lookup.merge_idxs) = Min(lookup.limit, Cardinality(occ)) * Len(lookup.needles)
        /\ lookup.current_pos =
             IF Cardinality(occ) >= lookup.limit THEN nth ELSE Len(tokens) - 1

C9_Witness ==
  /\ lookup.called /\ lookup.limit = 1 /\ lookup.start_pos = 0
  /\ analyzer.obj.tokens = <<id_start, 1, 2, 1, 2, id_end>>
  /\ lookup.needles = <<1, 2>>
  /\ lookup.merge_idxs = <<1, 2>>
  /\ lookup.current_pos = 1

\* ---------------------------------------------------- claims: lifecycle
\* the request is one the script traces: process enabled it
EnabledRun == self.assigned /\ is_enabled(self, host.attention_texts, host.enabled)

\* the image-saved event handled last, and its seed
AfterImage == hist.call.op = "image" /\ hist.call.handled
LastSeed == SeedOf(hist.call.iter, hist.call.batch_index)

\* C1: every batch of an enabled run hooks its trace exactly once and unhooks
\* it exactly once, however many image-saved events fire in between.
C1_OneHookUnhookPerBatch ==
  (pc.at = "done" /\ EnabledRun) =>
    \A b \in 1..NIter(host) : hist.hooks[b] = 1 /\ hist.unhooks[b] = 1

\* C2: also when an image-saved event fails part-way, the trace is unhooked
\* before the batch ends: no process_batch starts while a trace is hooked.
C2_NoTraceHookedAtBatchStart ==
  pc.at = "batch" => hooked = {}

\* C3 as claimed: the trace is hooked while each image-saved event of the batch
\* is handled and is unhooked only after the last one.
C3_HookedDuringEveryEvent ==
  (pc.at = "saving" /\ self.trace # NoTrace) => self.trace.id \in hooked

\* C3 as amended: the trace of a batch stays hooked until the first image-saved
\* event of the batch that is handled to its end, which unhooks it; the later
\* events of the batch are handled with the trace unhooked.
C3_UnhookedByFirstHandledEvent ==
  (self.trace # NoTrace /\ pc.at # "done") =>
    (self.trace.id \in hooked <=> hist.completed[self.trace.id] = 0)

C3_Witness ==
  /\ pc.at = "saving" /\ pc.batch_index = 1
  /\ self.trace.id = pc.iter
  /\ hist.completed[pc.iter] = 1
  /\ hist.call.op = "image" /\ hist.call.fault = "none"
  /\ self.trace.id \notin hooked

\* C4: when compute_global_heat_map raises on the batch-index-0 event, the
\* handler has no heat maps for the prompt, renders nothing and raises nothing.
C4_EmptyGlobalHeatmapIsNoFault ==
  (AfterImage /\ hist.call.raises) =>
    /\ self.global_heat_maps = <<>>
    /\ ~DictHas(self.heatmap_images, LastSeed)
    /\ hist.call.fault = "none"

RECURSIVE ResolvedOverlays(_, _, _)
\* the overlays of the resolvable words among attentions, in request order
ResolvedOverlays(attentions, layer, seed) ==
  IF attentions = <<>> THEN <<>>
  ELSE IF Head(attentions) \in PromptWords
       THEN <<Img("overlay", seed, Head(attentions), layer, <<>>)>>
            \o ResolvedOverlays(Tail(attentions), layer, seed)
       ELSE ResolvedOverlays(Tail(attentions), layer, seed)

\* C5: a word whose heat map cannot be resolved is left out of the seed's
\* overlay list, the other words' overlays are there, and the handler raises
\* nothing, with saving on or off.
C5_UnresolvedWordOmitted ==
  (/\ AfterImage
   /\ self.global_heat_maps # <<>>
   /\ \E k \in 1..Len(self.attentions) : self.attentions[k] \notin PromptWords) =>
    /\ hist.call.fault = "none"
    /\ DictHas(self.heatmap_images, LastSeed)
    /\ DictGet(self.heatmap_images, LastSeed) =
         ResolvedOverlays(self.attentions,
                          self.global_heat_maps[Len(self.global_heat_maps)], LastSeed)

\* C10: after postprocess of an enabled run, index_of_first_image has grown by
\* the number of images put in front of the host's images, and so has the list
\* of info texts, whatever the toggles, the seeds and the attention words.
C10_IndexOfFirstImage ==
  (pc.at = "done" /\ EnabledRun) =>
    LET given == HostProcessed(host, HostMakesGrid(host))
        added == Len(processed.images) - Len(given.images)
    IN  /\ added >= 0
        /\ SubSeq(processed.images, added + 1, Len(processed.images)) = given.images
        /\ processed.index_of_first_image = given.index_of_first_image + added
        /\ Len(processed.infotexts) = Len(given.infotexts) + added

C10_Witness ==
  /\ pc.at = "done" /\ EnabledRun
  /\ hist.call.fault = "none"
  /\ hist.call.show_images /\ hist.call.grid_per_image /\ self.use_grid
  /\ Len(self.heatmap_images) = 2 /\ Len(self.attentions) = 2
  /\ processed.index_of_first_image = 1 + 2 * (1 + 2 + 1)
  /\ Len(processed.infotexts) = Len(processed.images)

\* the scenario of one image and the attention words "cat", "ball", both in the
\* prompt, heat maps computed, overlays shown
TwoWordScenario ==
  /\ pc.at = "done" /\ EnabledRun
  /\ host.size = <<1, 1>>
  /\ self.attentions = <<"cat", "ball">>
  /\ self.global_heat_maps # <<>>
  /\ hist.call.show_images

\* the overlays of the scenario's image, in request order
TwoOverlays ==
  [k \in 1..2 |-> Img("overlay", 1, self.attentions[k],
                      self.global_heat_maps[Len(self.global_heat_maps)], <<>>)]

\* the heat map set holds the two overlays under the one seed, and the output
\* list is a grid, the two overlays, the original
GridOverlaysOriginal ==
  /\ Len(self.heatmap_images) = 1
  /\ DictHas(self.heatmap_images, 1)
  /\ DictGet(self.heatmap_images, 1) = TwoOverlays
  /\ Len(processed.images) = 4
  /\ processed.images[1].t = "grid"
  /\ SubSeq(processed.images, 2, 3) = TwoOverlays
  /\ processed.images[4] = Original(1)

\* C11 as claimed: in the scenario exactly two overlays are produced and the
\* output list has length 4: a grid, the overlays in request order, the original.
C11_ShownListIsGridOverlaysOriginal ==
  TwoWordScenario => GridOverlaysOriginal

\* C11 as amended: that is the output with "Use grid" off and "Grid per image"
\* on, and the grid is the per-image grid of the two overlays and the original.
C11_PerImageGridOverlaysOriginal ==
  (TwoWordScenario /\ ~self.use_grid /\ hist.call.grid_per_image) =>
    /\ GridOverlaysOriginal
    /\ processed.images[1].parts = TwoOverlays \o <<resize_image(Original(1))>>
    /\ hist.call.fault = "none"

C11_Witness ==
  /\ TwoWordScenario /\ ~self.use_grid /\ hist.call.grid_per_image
  /\ Len(processed.images) = 4
  /\ processed.images[1].parts = TwoOverlays \o <<resize_image(Original(1))>>
  /\ processed.images[4] = Original(1)

\* postprocess is due or done, and every image-saved event of the run was
\* handled to its end
AllEventsHandled ==
  /\ pc.at \in {"post", "done"} /\ EnabledRun
  /\ \A b \in 1..NIter(host) : hist.completed[b] = BatchSize(host)

\* C12: at postprocess the heat map set has one key per generated image, its
\* seed, and each key maps to one overlay per requested word in request order.
C12_OneKeyPerImageOneOverlayPerWord ==
  AllEventsHandled =>
    /\ Len(self.heatmap_images) = NIter(host) * BatchSize(host)
    /\ \A k \in 1..Len(self.heatmap_images) :
         /\ self.heatmap_images[k].seed = k
         /\ self.heatmap_images[k].imgs =
              [j \in 1..Len(self.attentions) |->
                 Img("overlay", k, self.attentions[j],
                     self.global_heat_maps[Len(self.global_heat_maps)], <<>>)]

\* process has run with "Always save all generated images" off
SavingDisabled == ~host.samples_save /\ pc.at # "start"

\* C13: with the setting off process raises, and the feature is halted for the
\* run: process_batch creates and hooks no trace, postprocess returns at once
\* and leaves the images, info texts and index of first image as the host
\* built them.
C13_HaltedWhenSavingDisabled ==
  SavingDisabled =>
    /\ hist.call.op = "process" => hist.call.fault = "AssertionError"
    /\ self.enabled = FALSE
    /\ self.trace = NoTrace /\ hooked = {}
    /\ \A b \in 1..MaxImages : hist.hooks[b] = 0
    /\ hist.call.op = "process_batch" => ~hist.call.handled
    /\ pc.at = "done" =>
         /\ ~hist.call.handled
         /\ processed = HostProcessed(host, HostMakesGrid(host))

C13_Witness ==
  /\ SavingDisabled /\ pc.at = "done"
  /\ host.enabled /\ host.attention_texts = <<"cat">> /\ NIter(host) = 2
  /\ hist.call.op = "postprocess" /\ ~hist.call.handled
  /\ processed = HostProcessed(host, TRUE)

\* C14: try_unhook is idempotent.  In every state of a run a second call right
\* after a first changes nothing, a call with no trace or with the trace not
\* hooked changes nothing, and after a call the trace is not hooked; in the
\* run itself the calls made for one batch (one per handled image-saved event,
\* one in postprocess) unhook its trace at most once and none of them raises.
C14_UnhookIdempotent ==
  LET once == try_unhook(self, hooked)
      twice == try_unhook(self, once)
  IN  /\ twice = once
      /\ (self.trace = NoTrace \/ self.trace.id \notin hooked) => once = hooked
      /\ self.trace # NoTrace => self.trace.id \notin once
      /\ \A b \in 1..MaxImages : hist.unhooks[b] <= 1
      /\ (AfterImage /\ hist.completed[hist.call.iter] >= 2) =>
           (hist.call.fault = "none" /\ hist.call.iter \notin hooked)

\* postprocess called try_unhook after both image-saved events of the batch
\* had called it
C14_Witness ==
  /\ pc.at = "done" /\ EnabledRun /\ hist.call.handled
  /\ host.size = <<1, 2>>
  /\ hist.completed[1] = 2 /\ hist.unhooks[1] = 1
  /\ hooked = {}

\* C16: the loop of postprocess pairs the k-th entry of the heat map set with
\* the k-th generated image, for two seeds and more, also while show-images
\* inserts in front of the list the loop reads.
C16_KthEntryWithKthImage ==
  (pc.at = "done" /\ EnabledRun /\ hist.call.handled) =>
    \A k \in 1..Len(hist.call.pairs) : hist.call.pairs[k].img = Original(k)

\* C18: the list calc_word_indecies returns is a set in ascending order: no
\* position twice, every position at least start_pos and below len(tokens),
\* also for a needle whose occurrences overlap ([A,A] in [A,A,A]).
C18_AscendingSet ==
  lookup.called =>
    /\ \A k \in 1..Len(lookup.merge_idxs) :
         /\ lookup.merge_idxs[k] >= lookup.start_pos
         /\ lookup.merge_idxs[k] < Len(analyzer.obj.tokens)
    /\ \A k \in 1..(Len(lookup.merge_idxs) - 1) :
         lookup.merge_idxs[k] < lookup.merge_idxs[k + 1]

\* ------------------------------------------------------ claims: compositing
\* C15: make_grid with layout Auto gives the grid of explicit "Prevent Empty
\* Spot" when batch_size * n_iter = 1 and the grid of explicit "Batch Length As
\* Row" for every other product (4 among them), for the same images and
\* layers-as-row flag.
C15_AutoLayout ==
  (compose.op = "make_grid" /\ self.grid_layout = GRID_LAYOUT_AUTO) =>
    LET one == BatchSize(host) * NIter(host) = 1
        explicit == IF one THEN GRID_LAYOUT_PREVENT_EMPTY
                    ELSE GRID_LAYOUT_BATCH_LENGTH_AS_ROW
        r == make_grid([self EXCEPT !.grid_layout = explicit], host, compose.img_list,
                       compose.layers_as_row, [heatmaps |-> {}, grids |-> 0])
    IN  /\ compose.grid_img = r.img
        /\ compose.fault = r.fault
        /\ files = r.files
        /\ one => compose.grid_img = image_grid(compose.img_list, 0, 0)
        /\ (~one /\ ~compose.layers_as_row) =>
             compose.grid_img = image_grid(compose.img_list, BatchSize(host),
                                           BatchSize(host) * NIter(host))
        /\ (~one /\ compose.layers_as_row) =>
             compose.grid_img = image_grid(compose.img_list, Len(self.attentions),
                                           Len(self.heatmap_images))

C15_Witness ==
  /\ compose.op = "make_grid" /\ self.grid_layout = GRID_LAYOUT_AUTO
  /\ host.size = <<2, 2>> /\ ~compose.layers_as_row
  /\ compose.fault = "none"
  /\ compose.grid_img.batch_size = 2 /\ compose.grid_img.rows = 4

\* C17: add_to_start with a list of k images, or one image (k = 1), puts them
\* in front and adds k to the offset and k info texts, so that
\* compile_processed_image returns as many info texts as images and an offset
\* that is the number of images in front of the original.
C17_OffsetAndInfotextsFollowImages ==
  /\ compose.op = "add_to_start" =>
       LET k == Len(compose.imgs.items)
       IN  /\ compose.images = compose.imgs.items \o <<Original(1)>>
           /\ compose.result_offset = compose.offset + k
           /\ Len(compose.infotexts) = 1 + k
  /\ compose.op = "compile_processed_image" =>
       /\ Len(compose.infotexts) = Len(compose.images)
       /\ compose.result_offset = Len(compose.images) - 1
       /\ compose.images[Len(compose.images)] = Original(1)

====
